---- MODULE Spec2Model ----
(***************************************************************************)
(* Model of src/services/colors.js: colour validation, the YIQ and WCAG    *)
(* contrast decisions, the gradient ramp, the derived theme and its        *)
(* application to document.body.                                           *)
(*                                                                         *)
(* JavaScript values are records [k |-> kind, v |-> payload]:              *)
(*   "string"    v = sequence of one-character strings                     *)
(*   "number"    v = integer            "nan"  v = 0 (typeof "number")     *)
(*   "array"     v = sequence of values                                    *)
(*   "null", "undefined"                v = 0                              *)
(*   "object"    v = record of the object's fields                         *)
(*   "throw"     v = name of the error an evaluation raised                *)
(* A fractional number is an exact fraction [num |-> n, den |-> d].        *)
(***************************************************************************)
EXTENDS Integers, Sequences, FiniteSets, TLC

VARIABLES call, ret, body, old

vars == <<call, ret, body, old>>

(* ------------------------------ bounds -------------------------------- *)

MaxLen == 5
MaxStrLen == 7

(* --------------------------- JavaScript values ------------------------ *)

Str(s) == [k |-> "string", v |-> s]
Num(n) == [k |-> "number", v |-> n]
Arr(a) == [k |-> "array", v |-> a]
NaN == [k |-> "nan", v |-> 0]
Null == [k |-> "null", v |-> 0]
Undefined == [k |-> "undefined", v |-> 0]
Bool(b) == [k |-> "boolean", v |-> b]
Obj(r) == [k |-> "object", v |-> r]
Throw(e) == [k |-> "throw", v |-> e]
Pending == [k |-> "pending", v |-> 0]

typeof(x) ==
  CASE x.k = "string" -> "string"
    [] x.k \in {"number", "nan"} -> "number"
    [] x.k \in {"array", "null", "object"} -> "object"
    [] x.k = "boolean" -> "boolean"
    [] OTHER -> "undefined"

\* x.length: reading a property of null or undefined raises a TypeError
HasLength(x) == x.k \in {"string", "array"}
LengthRaises(x) == x.k \in {"null", "undefined"}
length(x) == IF HasLength(x) THEN Len(x.v) ELSE -1

\* x[i] with a JavaScript (0-based) index; out of range is undefined
At(a, i) == IF i >= 0 /\ i < Len(a) THEN a[i + 1] ELSE Undefined

\* item <= max: false whenever the left side is NaN
Leq(item, max) == item.k = "number" /\ item.v <= max

(* ------------------------- Number("0x" + value) ----------------------- *)

HexDigits ==
  {"0", "1", "2", "3", "4", "5", "6", "7", "8", "9",
   "a", "b", "c", "d", "e", "f", "A", "B", "C", "D", "E", "F"}
WhiteSpace == {" "}

DigitValue(c) ==
  CASE c = "0" -> 0 [] c = "1" -> 1 [] c = "2" -> 2 [] c = "3" -> 3
    [] c = "4" -> 4 [] c = "5" -> 5 [] c = "6" -> 6 [] c = "7" -> 7
    [] c = "8" -> 8 [] c = "9" -> 9
    [] c \in {"a", "A"} -> 10 [] c \in {"b", "B"} -> 11
    [] c \in {"c", "C"} -> 12 [] c \in {"d", "D"} -> 13
    [] c \in {"e", "E"} -> 14 [] c \in {"f", "F"} -> 15
    [] OTHER -> -1

RECURSIVE TrimEnd(_)
TrimEnd(s) ==
  IF s = <<>> THEN s
  ELSE IF s[Len(s)] \in WhiteSpace THEN TrimEnd(SubSeq(s, 1, Len(s) - 1))
  ELSE s

RECURSIVE HexValue(_)
HexValue(s) ==
  IF s = <<>> THEN 0
  ELSE 16 * HexValue(SubSeq(s, 1, Len(s) - 1)) + DigitValue(s[Len(s)])

\* Number("0x" + s): StringToNumber strips the white space around the
\* literal, then the rest must be 0x followed by one or more hex digits.
NumberOf0x(s) ==
  LET t == TrimEnd(s) IN
  IF t # <<>> /\ \A i \in 1..Len(t) : t[i] \in HexDigits
  THEN Num(HexValue(t))
  ELSE NaN

isNaN(x) == x.k = "nan"

(* --------------------------- getColorProperties ----------------------- *)

inputLength(type) ==
  CASE type = "hex" -> 1
    [] type = "rgb" -> 3
    [] type = "hsl" -> 3
    [] type = "cmyk" -> 4

\* the hsl bound taken without the index: 360 for every channel
inputMaxLength_NoIndex(type, i) ==
  CASE type = "hex" -> 6
    [] type = "rgb" -> 255
    [] type = "hsl" -> 360
    [] type = "cmyk" -> 100

inputMaxLength(type, i) ==
  CASE type = "hex" -> 6
    [] type = "rgb" -> 255
    [] type = "hsl" -> <<360, 100, 100>>[i + 1]
    [] type = "cmyk" -> 100

(* ------------------------------ colorValidate ------------------------- *)

\* value.filter(...) keeps the entries that pass, in order
RECURSIVE filterValid(_, _, _)
filterValid(type, a, i) ==
  IF i >= Len(a) THEN <<>>
  ELSE (IF typeof(a[i + 1]) = "number" /\ Leq(a[i + 1], inputMaxLength(type, i))
        THEN <<a[i + 1]>> ELSE <<>>)
       \o filterValid(type, a, i + 1)

colorValidateHex(value) ==
  IF typeof(value) = "object" /\ LengthRaises(value) THEN Throw("TypeError")
  ELSE
    LET unwrapped ==
          IF typeof(value) = "object" /\ length(value) = inputLength("hex")
          THEN value.v[1] ELSE value
    IN Bool(/\ typeof(unwrapped) = "string"
            /\ length(unwrapped) = inputMaxLength("hex", 0)
            /\ ~isNaN(NumberOf0x(unwrapped.v)))

colorValidateNumeric(type, value) ==
  IF typeof(value) = "object" /\ LengthRaises(value) THEN Throw("TypeError")
  ELSE IF typeof(value) = "object" /\ length(value) = inputLength(type)
  THEN Bool(Len(filterValid(type, value.v, 0)) = inputLength(type))
  ELSE Bool(FALSE)

colorValidate(from, value) ==
  CASE from = "hex" -> colorValidateHex(value)
    [] from \in {"rgb", "hsl", "cmyk"} -> colorValidateNumeric(from, value)
    [] OTHER -> Undefined

(* ------------------------- inputs of the validator -------------------- *)

Tags == {"hex", "rgb", "hsl", "cmyk", "xyz"}
NumericTags == {"rgb", "hsl", "cmyk"}

SeqsOver(S, n) == UNION {[1..m -> S] : m \in 0..n}

Chars == {"0", "a", "F", "G", " "}
HexStrings == {Str(s) : s \in SeqsOver(Chars, MaxStrLen)}
SixChars == {Str(s) : s \in [1..6 -> {"0", "F", "G", " "}]}
HexValues == HexStrings \cup {Arr(<<x>>) : x \in SixChars}

\* channel samples around each model's bounds, a NaN and a non-number
EntriesOf(type) ==
  CASE type = "rgb" -> {Num(-1), Num(0), Num(255), Num(256), Str(<<"1">>)}
    [] type = "hsl" -> {Num(-1), Num(100), Num(101), Num(360), Num(361), NaN}
    [] type = "cmyk" -> {Num(-1), Num(0), Num(100), Num(101), Str(<<"1">>)}
SeqValues(type) == {Arr(a) : a \in SeqsOver(EntriesOf(type), MaxLen)}

CrossValues ==
  {Null, Undefined, Num(6), Num(3), NaN, Bool(TRUE)}
    \cup {Str(<<>>), Str(<<"0", "0", "0", "0", "0", "0">>),
          Str(<<"F", "F", "F">>), Str(<<"G", "G", "G", "G", "G", "G">>),
          Str(<<"1", "2", "3", "4">>), Str(<<"a", "B", "c", "D", "e", "F">>)}
    \cup {Arr(a) : a \in SeqsOver({Num(0), Num(500)}, MaxLen)}
    \cup {Arr(<<Str(<<"0", "0", "0", "0", "0", "0">>)>>), Arr(<<Null>>),
          Arr(<<Str(<<"0", "0", "0">>)>>)}

Call(op, args) == [op |-> op, args |-> args]
NoCall == Call("none", <<>>)
EmptyBody == [cssText |-> <<>>, dark |-> FALSE]

(* ------------------------------- validator ---------------------------- *)

InitOf(inputs) ==
  /\ call \in inputs
  /\ ret = Pending
  /\ body = EmptyBody
  /\ old = EmptyBody

InitHex == InitOf({Call("colorValidate", <<"hex", x>>) : x \in HexValues})
InitNumeric ==
  InitOf(UNION {{Call("colorValidate", <<t, x>>) : x \in SeqValues(t)} :
                t \in NumericTags})
InitValidate ==
  InitOf({Call("colorValidate", <<t, x>>) : t \in Tags, x \in CrossValues})

ColorValidate ==
  /\ call.op = "colorValidate"
  /\ ret = Pending
  /\ ret' = colorValidate(call.args[1], call.args[2])
  /\ UNCHANGED <<call, body, old>>

NextValidate == ColorValidate

SpecHex == InitHex /\ [][NextValidate]_vars
SpecNumeric == InitNumeric /\ [][NextValidate]_vars
SpecValidate == InitValidate /\ [][NextValidate]_vars

Done(op) == call.op = op /\ ret # Pending

\* the value the hex check looks at: a single-element sequence is unwrapped
UnwrapOne(x) == IF x.k = "array" /\ Len(x.v) = 1 THEN x.v[1] ELSE x

IsSixHexDigits(x) ==
  x.k = "string" /\ Len(x.v) = 6 /\ \A i \in 1..Len(x.v) : x.v[i] \in HexDigits

\* C2: colorValidate("hex", v) is true exactly when v, a single-element
\* sequence unwrapped, is a string of exactly 6 hexadecimal digits.
C2_HexIffSixDigits ==
  (Done("colorValidate") /\ call.args[1] = "hex")
    => (ret = Bool(TRUE) <=> IsSixHexDigits(UnwrapOne(call.args[2])))

Arity(type) == CASE type = "rgb" -> 3 [] type = "hsl" -> 3 [] type = "cmyk" -> 4
Bound(type, i) ==
  CASE type = "rgb" -> 255
    [] type = "hsl" -> (IF i = 1 THEN 360 ELSE 100)
    [] type = "cmyk" -> 100

InDomain(type, x) ==
  /\ x.k = "array"
  /\ Len(x.v) = Arity(type)
  /\ \A i \in 1..Len(x.v) : x.v[i].k = "number" /\ x.v[i].v <= Bound(type, i)

\* C3: for rgb, hsl and cmyk, colorValidate is true exactly when the value is
\* a sequence of arity(M) numbers, each at most the bound of its index; there
\* is no lower bound.
C3_NumericIffInBounds ==
  (Done("colorValidate") /\ call.args[1] \in NumericTags)
    => (ret = Bool(TRUE) <=> InDomain(call.args[1], call.args[2]))

\* a negative channel passes while every upper bound is checked by index
C3_Witness ==
  /\ Done("colorValidate")
  /\ call.args = <<"hsl", Arr(<<Num(-1), Num(100), Num(100)>>)>>
  /\ ret = Bool(TRUE)

ValidFor(type, x) ==
  IF type = "hex" THEN IsSixHexDigits(UnwrapOne(x)) ELSE InDomain(type, x)

\* C4: colorValidate never raises; it returns false for every value that is
\* not valid for a recognised model and undefined for an unrecognised tag.
C4_NeverRaises ==
  Done("colorValidate") =>
    /\ ret.k # "throw"
    /\ call.args[1] \notin {"hex", "rgb", "hsl", "cmyk"} => ret = Undefined
    /\ (call.args[1] \in {"hex", "rgb", "hsl", "cmyk"}
          /\ ~ValidFor(call.args[1], call.args[2])) => ret = Bool(FALSE)

(* ------------------------------ contrast engine ----------------------- *)

Frac(n, d) == [num |-> n, den |-> d]
\* q >= n and q < a / b on exact fractions (all denominators are positive)
\* NaN is the fraction 0/0: every comparison with it is false
NaNFrac == Frac(0, 0)
FracGeq(q, n) == q.den > 0 /\ q.num >= n * q.den
FracLess(q, a, b) == b * q.num < a * q.den

Ints(x) == [i \in 1..Len(x.v) |-> x.v[i].v]

\* "black" only above 128
yiqContrastRatio_Strict(rgb) ==
  LET r == Ints(rgb)[1]
      g == Ints(rgb)[2]
      b == Ints(rgb)[3]
      yiq == IF \E i \in 1..3 : rgb.v[i].k = "nan" THEN NaNFrac
             ELSE Frac(r * 299 + g * 587 + b * 114, 1000)
  IN Obj([yiq |-> yiq,
          result |-> IF yiq.den > 0 /\ yiq.num > 128 * yiq.den
                     THEN "black" ELSE "white"])

yiqContrastRatio(rgb) ==
  LET r == Ints(rgb)[1]
      g == Ints(rgb)[2]
      b == Ints(rgb)[3]
      yiq == IF \E i \in 1..3 : rgb.v[i].k = "nan" THEN NaNFrac
             ELSE Frac(r * 299 + g * 587 + b * 114, 1000)
  IN Obj([yiq |-> yiq, result |-> IF FracGeq(yiq, 128) THEN "black" ELSE "white"])

yiqContrastColor(yiq) == IF FracGeq(yiq, 128) THEN "black" ELSE "white"

\* converter.hex.toRgb: each pair of hex digits is one channel
HexByte(s, i) ==
  IF i + 1 <= Len(s) /\ s[i] \in HexDigits /\ s[i + 1] \in HexDigits
  THEN Num(16 * DigitValue(s[i]) + DigitValue(s[i + 1]))
  ELSE NaN
hexToRgb(hex) ==
  LET s == UnwrapOne(hex).v IN Arr(<<HexByte(s, 1), HexByte(s, 3), HexByte(s, 5)>>)

\* v /= 255; v <= 0.03928 ? v / 12.92 : ((v + 0.055) / 1.055) ^ 2.4,
\* tabulated in units of 1/10000 for the sampled channels
LumChannels == {0, 10, 11, 128, 255}
Linear(v) ==
  CASE v = 0 -> 0
    [] v = 10 -> 30
    [] v = 11 -> 33
    [] v = 128 -> 2159
    [] v = 255 -> 10000

\* relative luminance in units of 1/100000000
LumUnit == (2126 + 7152 + 722) * Linear(255)
getLuminance(rgb) ==
  LET a == [i \in 1..3 |-> Linear(Ints(rgb)[i])]
  IN a[1] * 2126 + a[2] * 7152 + a[3] * 722

\* 0.05 in luminance units
Flare == LumUnit \div 20

\* foreground over background, whichever is lighter
contrastRatio_Unordered(fg_luminance, bg_luminance) ==
  Frac(fg_luminance + Flare, bg_luminance + Flare)

contrastRatio(fg_luminance, bg_luminance) ==
  IF fg_luminance > bg_luminance
  THEN Frac(bg_luminance + Flare, fg_luminance + Flare)
  ELSE Frac(fg_luminance + Flare, bg_luminance + Flare)

toRgbIfString(color) == IF typeof(color) = "string" THEN hexToRgb(color) ELSE color

calculateContrast(foreground, background) ==
  LET fg == toRgbIfString(foreground)
      bg == toRgbIfString(background)
      ratio == contrastRatio(getLuminance(fg), getLuminance(bg))
  IN Obj([aa_lvl_lg |-> FracLess(ratio, 1, 3),
          aa_lvl_sm |-> FracLess(ratio, 2, 9),
          aaa_lvl_lg |-> FracLess(ratio, 2, 9),
          aaa_lvl_sm |-> FracLess(ratio, 1, 7)])

YiqChannels == {0, 1, 127, 128, 129, 254, 255}
YiqInputs == {Arr(<<Num(r), Num(g), Num(b)>>) : r, g, b \in YiqChannels}

White == Str(<<"F", "F", "F", "F", "F", "F">>)
Black == Str(<<"0", "0", "0", "0", "0", "0">>)
LumInputs ==
  {Arr(<<Num(r), Num(g), Num(b)>>) : r, g, b \in LumChannels}
    \cup {White, Black, Str(<<"8", "0", "0", "b", "0", "a">>)}

InitContrast ==
  InitOf({Call("yiqContrastRatio", <<x>>) : x \in YiqInputs}
           \cup {Call("calculateContrast", <<x, y>>) : x, y \in LumInputs})

YiqContrastRatio ==
  /\ call.op = "yiqContrastRatio"
  /\ ret = Pending
  /\ ret' = yiqContrastRatio(call.args[1])
  /\ UNCHANGED <<call, body, old>>

\* the caller passes the yiq of a contrast result on to yiqContrastColor
YiqContrastColor ==
  /\ Done("yiqContrastRatio")
  /\ call' = Call("yiqContrastColor", <<ret.v.yiq, ret.v.result>>)
  /\ ret' = Obj([result |-> yiqContrastColor(ret.v.yiq)])
  /\ UNCHANGED <<body, old>>

CalculateContrast ==
  /\ call.op = "calculateContrast"
  /\ ret = Pending
  /\ ret' = calculateContrast(call.args[1], call.args[2])
  /\ UNCHANGED <<call, body, old>>

NextContrast == YiqContrastRatio \/ YiqContrastColor \/ CalculateContrast

SpecContrast == InitContrast /\ [][NextContrast]_vars

YiqSum(rgb) == 299 * rgb.v[1].v + 587 * rgb.v[2].v + 114 * rgb.v[3].v

\* C5: for integer channels in 0..255, yiq = (299r + 587g + 114b) / 1000 and
\* the result is "black" exactly when 299r + 587g + 114b >= 128000, else
\* "white"; white gives 255 and "black", black gives 0 and "white", and
\* yiqContrastColor(yiq) gives the same result.
C5_YiqThreshold ==
  /\ Done("yiqContrastRatio") =>
       /\ ret.v.yiq.den = 1000 /\ ret.v.yiq.num = YiqSum(call.args[1])
       /\ ret.v.result = (IF YiqSum(call.args[1]) >= 128000
                          THEN "black" ELSE "white")
       /\ call.args[1] = Arr(<<Num(255), Num(255), Num(255)>>)
            => ret.v.yiq.num = 255 * ret.v.yiq.den /\ ret.v.result = "black"
       /\ call.args[1] = Arr(<<Num(0), Num(0), Num(0)>>)
            => ret.v.yiq.num = 0 /\ ret.v.result = "white"
  /\ Done("yiqContrastColor") => ret.v.result = call.args[2]

\* the grey whose yiq is exactly 128 is "black", also by yiqContrastColor
C5_Witness ==
  /\ Done("yiqContrastColor")
  /\ call.args[1] = Frac(128000, 1000)
  /\ ret.v.result = "black"

Min(a, b) == IF a < b THEN a ELSE b
Max(a, b) == IF a < b THEN b ELSE a
Lum(color) == getLuminance(toRgbIfString(color))

\* C6: calculateContrast(a, b) = calculateContrast(b, a); the ratio is
\* (min(La, Lb) + 0.05) / (max(La, Lb) + 0.05), at most 1, and the results
\* are ratio < 1/3, ratio < 1/4.5, ratio < 1/4.5 and ratio < 1/7; white on
\* black gives four times true.
C6_ContrastSymmetric ==
  Done("calculateContrast") =>
    LET La == Lum(call.args[1])
        Lb == Lum(call.args[2])
        ratio == contrastRatio(La, Lb)
        lo == Min(La, Lb) + Flare
        hi == Max(La, Lb) + Flare
    IN /\ ret = calculateContrast(call.args[2], call.args[1])
       /\ ratio = Frac(lo, hi)
       /\ ratio.num <= ratio.den
       /\ ret.v.aa_lvl_lg = (3 * lo < hi)
       /\ ret.v.aa_lvl_sm = (9 * lo < 2 * hi)
       /\ ret.v.aaa_lvl_lg = (9 * lo < 2 * hi)
       /\ ret.v.aaa_lvl_sm = (7 * lo < hi)
       /\ (La = LumUnit /\ Lb = 0) =>
            ret = Obj([aa_lvl_lg |-> TRUE, aa_lvl_sm |-> TRUE,
                       aaa_lvl_lg |-> TRUE, aaa_lvl_sm |-> TRUE])

\* white text on a black background, given as hex strings
C6_Witness ==
  /\ Done("calculateContrast")
  /\ call.args = <<White, Black>>
  /\ ret.v.aaa_lvl_sm

(* ------------------------- external collaborators --------------------- *)

\* Strings built by the pipeline are kept as what they were built from:
\*   "hexcolor"  `#${v}`                  "lit"   the literal v
\*   "rgbfn"     `rgb(${v.args.join(v.sep)})`
\*   "stop"      entry v.index of gradstop(v.options)
\*   "replaced"  v.of after the replacements v.edits, in order
\*   "channels"  the numbers split out of the colour string v
\*   "decl"      `--${v.name}: ${v.value};`
Text(kind, v) == [k |-> kind, v |-> v]
IsUndefined(x) == x.k = "undefined"

HexChars ==
  <<"0", "1", "2", "3", "4", "5", "6", "7", "8", "9", "a", "b", "c", "d", "e", "f">>

\* converter.rgb.toHex: two hex digits per channel
rgbToHex(rgb) ==
  LET c == Ints(rgb)
      pair(n) == <<HexChars[(n \div 16) + 1], HexChars[(n % 16) + 1]>>
  IN IF \E i \in 1..3 : rgb.v[i].k # "number" \/ c[i] < 0 \/ c[i] > 255
     THEN Str(<<"N", "a", "N">>)
     ELSE Str(pair(c[1]) \o pair(c[2]) \o pair(c[3]))

Triple(r, g, b) == Arr(<<Num(r), Num(g), Num(b)>>)
NaNRgb == Arr(<<NaN, NaN, NaN>>)

\* converter.hsl.toRgb and converter.cmyk.toRgb on the sampled colours
hslToRgb(hsl) ==
  CASE hsl = Triple(210, 50, 40) -> Triple(51, 102, 153)
    [] hsl = Triple(0, 0, 100) -> Triple(255, 255, 255)
    [] hsl = Triple(0, 0, 0) -> Triple(0, 0, 0)
    [] OTHER -> NaNRgb
cmykToRgb(cmyk) ==
  CASE cmyk = Arr(<<Num(0), Num(0), Num(0), Num(100)>>) -> Triple(0, 0, 0)
    [] cmyk = Arr(<<Num(0), Num(0), Num(0), Num(0)>>) -> Triple(255, 255, 255)
    [] cmyk = Arr(<<Num(100), Num(0), Num(0), Num(0)>>) -> Triple(0, 255, 255)
    [] OTHER -> NaNRgb

\* the conversions the pipeline never looks into
Converted(to, value) == [k |-> "converted", v |-> [to |-> to, from |-> value]]

\* normalize(sequence): the channels as integers
normalize(a) == a

\* gradstop(options): options.stops colour strings
gradstop(options) ==
  Arr([i \in 1..options.stops |->
         Text("stop", [options |-> options, index |-> i - 1])])

(* ------------------------------ colorConvert -------------------------- *)

colorConvert(type, value) ==
  CASE type = "hex" ->
         Obj([hex |-> value, rgb |-> hexToRgb(value),
              hsl |-> Converted("hsl", value), cmyk |-> Converted("cmyk", value)])
    [] type = "rgb" ->
         Obj([hex |-> rgbToHex(value), rgb |-> value,
              hsl |-> Converted("hsl", value), cmyk |-> Converted("cmyk", value)])
    [] type = "hsl" ->
         Obj([hex |-> rgbToHex(hslToRgb(value)), rgb |-> hslToRgb(value),
              hsl |-> value, cmyk |-> Converted("cmyk", value)])
    [] type = "cmyk" ->
         Obj([hex |-> rgbToHex(cmykToRgb(value)), rgb |-> cmykToRgb(value),
              hsl |-> Converted("hsl", value), cmyk |-> value])
    [] OTHER -> Undefined

(* ---------------------------- generateGrandients ---------------------- *)

Stops == 8

\* the first, hex-space ramp returned instead of the second
generateGrandients_FirstRamp(hex) ==
  LET isValidColor == colorValidate("hex", hex)
  IN IF isValidColor.k = "throw" THEN isValidColor
     ELSE IF isValidColor # Bool(TRUE) THEN Arr(<<>>)
     ELSE gradstop([stops |-> Stops, inputFormat |-> "hex",
                    colorArray |-> <<Text("lit", "#212121"), Text("hexcolor", hex),
                                     Text("lit", "#FFFFFF")>>])

generateGrandients(hex) ==
  LET isValidColor == colorValidate("hex", hex)
      rgbColor == hexToRgb(hex)
      hexResult ==
        gradstop([stops |-> Stops, inputFormat |-> "hex",
                  colorArray |-> <<Text("lit", "#212121"), Text("hexcolor", hex),
                                   Text("lit", "#FFFFFF")>>])
  IN IF isValidColor.k = "throw" THEN isValidColor
     ELSE IF isValidColor # Bool(TRUE) THEN Arr(<<>>)
     ELSE gradstop([stops |-> Stops, inputFormat |-> "rgb",
                    colorArray |->
                      <<At(hexResult.v, 1),
                        Text("rgbfn", [args |-> rgbColor.v, sep |-> ","]),
                        At(hexResult.v, 6)>>])

(* ------------------------------ generateCssColor ---------------------- *)

RECURSIVE Reverse(_)
Reverse(a) == IF a = <<>> THEN <<>> ELSE Reverse(Tail(a)) \o <<Head(a)>>

\* rgb.toString(color)
rgbToString(color) == Text("rgbfn", [args |-> normalize(color.v), sep |-> ", "])

\* rgb.toArray(color): the channels of "rgb(r, g, b)"
rgbToArray(color) ==
  IF color.k = "rgbfn" THEN Arr(normalize(color.v.args))
  ELSE Arr(normalize(<<Text("channels", color)>>))

\* darkColor.replace("rgb", "rgba").replace(")", ", 0.98)")
darkTransparentOf(darkColor) ==
  Text("replaced", [of |-> darkColor,
                    edits |-> <<<<"rgb", "rgba">>, <<")", ", 0.98)">>>>])

Decl(name, value) == Text("decl", [name |-> name, value |-> value])

\* for (const [index, gradient] of Object.entries(reversed)) push
\* numbering from 0 instead of 100
gradientDecl_FromZero(index, gradient) ==
  Decl(<<"gradient-", index * 100>>, gradient)

gradientDecl(index, gradient) ==
  Decl(<<"gradient-", (index + 1) * 100>>, gradient)
gradientDecls(reversed) ==
  [i \in 1..Len(reversed) |-> gradientDecl(i - 1, reversed[i])]

Names(pairs) == [i \in 1..Len(pairs) |-> Decl(<<pairs[i][1], 0>>, pairs[i][2])]

generateCssColor(type, value) ==
  LET colors == colorConvert(type, value) IN
  IF IsUndefined(colors) THEN Throw("TypeError")
  ELSE
    LET contrast == yiqContrastRatio(colors.v.rgb)
        gradients == generateGrandients(colors.v.hex)
        black == contrast.v.result = "black"
        textColor ==
          IF black THEN At(gradients.v, 7) ELSE rgbToString(colors.v.rgb)
        secondaryColor ==
          IF black THEN At(gradients.v, 1) ELSE At(gradients.v, 7)
        darkColor == IF black THEN At(gradients.v, 7) ELSE At(gradients.v, 1)
        named ==
          Names(<<<<"primary-color", rgbToString(colors.v.rgb)>>,
                  <<"secondary-color", secondaryColor>>,
                  <<"text-color", textColor>>,
                  <<"dark-color", darkColor>>,
                  <<"dark-transparent-color", darkTransparentOf(darkColor)>>,
                  <<"contrast-color", Text("lit", contrast.v.result)>>>>)
        \* gradients.reverse() reverses the array in place: the loop and the
        \* returned object see the same, reversed, array
        reversed == Reverse(gradients.v)
    IN IF gradients.k = "throw" THEN gradients
       ELSE IF IsUndefined(darkColor) \/ IsUndefined(secondaryColor)
                 \/ IsUndefined(textColor)
       THEN Throw("TypeError")
       ELSE Obj([colors |-> colors,
                 contrast |-> contrast,
                 gradients |-> Arr(reversed),
                 cssVariable |-> Arr(named \o gradientDecls(reversed)),
                 variable |->
                   Obj([primary |-> Arr(normalize(colors.v.rgb.v)),
                        secondary |-> rgbToArray(secondaryColor),
                        text |-> rgbToArray(textColor),
                        contrast |-> IF black THEN Triple(0, 0, 0)
                                     ELSE Triple(255, 255, 255)])])

(* ------------------------------- calculateColor ----------------------- *)

Transition ==
  Text("lit", "transition: background-color 0.5s cubic-bezier(0.4, 0, 0.2, 1);")

\* document.body once the theme is applied
\* the declarations appended to the style already there, the class only added
applyTheme_Append(surface, theme, animated) ==
  [cssText |-> surface.cssText \o theme.v.cssVariable.v
                 \o (IF animated THEN <<Transition>> ELSE <<>>),
   dark |-> surface.dark \/ theme.v.contrast.v.result = "black"]

applyTheme(surface, theme, animated) ==
  [cssText |-> theme.v.cssVariable.v \o (IF animated THEN <<Transition>> ELSE <<>>),
   dark |-> theme.v.contrast.v.result = "black"]

calculateColor(type, value, animated) ==
  LET theme == generateCssColor(type, value) IN
  IF theme.k = "throw" THEN theme
  ELSE Obj([colors |-> theme.v.colors,
            contrast |-> theme.v.contrast,
            gradients |-> Arr(Reverse(theme.v.gradients.v)),
            variable |-> theme.v.variable])

(* --------------------------------- theme ------------------------------ *)

S(t) == Str(t)
HexInputs ==
  {S(<<"3", "3", "6", "6", "9", "9">>), White, Black,
   S(<<"G", "G", "G", "G", "G", "G">>), S(<<"1", "2", "3", "4", "5">>),
   S(<<"1", "2", "3", "4", "5", " ">>)}

ThemeInputs ==
  {<<"hex", S(<<"3", "3", "6", "6", "9", "9">>)>>, <<"hex", White>>,
   <<"hex", Black>>, <<"hex", S(<<"G", "G", "G", "G", "G", "G">>)>>,
   <<"hex", S(<<"1", "2", "3", "4", "5">>)>>,
   <<"rgb", Triple(51, 102, 153)>>, <<"rgb", Triple(128, 128, 128)>>,
   <<"rgb", Triple(127, 128, 128)>>,
   <<"hsl", Triple(210, 50, 40)>>, <<"hsl", Triple(0, 0, 100)>>,
   <<"cmyk", Arr(<<Num(0), Num(0), Num(0), Num(100)>>)>>,
   <<"cmyk", Arr(<<Num(100), Num(0), Num(0), Num(0)>>)>>,
   <<"xyz", Triple(1, 2, 3)>>}

InitTheme ==
  /\ call = NoCall
  /\ ret = Undefined
  /\ body = EmptyBody
  /\ old = EmptyBody

GenerateGrandients ==
  \E hex \in HexInputs \cup {Undefined, Null} :
    /\ call' = Call("generateGrandients", <<hex>>)
    /\ ret' = generateGrandients(hex)
    /\ old' = body
    /\ UNCHANGED body

GenerateCssColor ==
  \E in \in ThemeInputs :
    /\ call' = Call("generateCssColor", in)
    /\ ret' = generateCssColor(in[1], in[2])
    /\ old' = body
    /\ UNCHANGED body

CalculateColor ==
  \E in \in ThemeInputs, animated \in BOOLEAN :
    /\ call' = Call("calculateColor", <<in[1], in[2], animated>>)
    /\ ret' = calculateColor(in[1], in[2], animated)
    /\ old' = body
    /\ body' = IF ret'.k = "throw" THEN body
               ELSE applyTheme(body, generateCssColor(in[1], in[2]), animated)

NextTheme == GenerateGrandients \/ GenerateCssColor \/ CalculateColor

SpecTheme == InitTheme /\ [][NextTheme]_vars

Recognised(type) == type \in {"hex", "rgb", "hsl", "cmyk"}
Succeeded(op) == Done(op) /\ ret.k # "throw"
Absent(x) == x.k = "undefined"

\* C1: when the converted hex fails colorValidate("hex", ...),
\* generateCssColor does not raise: it returns a Theme with an empty gradient
\* ramp whose gradient-dependent fields are absent.
C1_DegradesWithoutRaising ==
  (/\ Done("generateCssColor")
   /\ Recognised(call.args[1])
   /\ colorValidate("hex", colorConvert(call.args[1], call.args[2]).v.hex)
        = Bool(FALSE))
    => /\ ret.k # "throw"
       /\ ret.v.gradients = Arr(<<>>)
       /\ Len(ret.v.cssVariable.v) = 6
       /\ Absent(ret.v.cssVariable.v[2].v.value)
       /\ Absent(ret.v.cssVariable.v[4].v.value)

FirstRamp(hex) ==
  gradstop([stops |-> 8, inputFormat |-> "hex",
            colorArray |-> <<Text("lit", "#212121"), Text("hexcolor", hex),
                             Text("lit", "#FFFFFF")>>])

\* C7: generateGrandients returns 8 entries for a hex that colorValidate
\* accepts and an empty sequence for one it rejects; the ramp is the rgb
\* interpolation anchored at stop 1 of the hex ramp, the input as rgb and
\* stop 6 of the hex ramp.
C7_RampOfEight ==
  Done("generateGrandients") =>
    LET hex == call.args[1]
        valid == colorValidate("hex", hex)
    IN /\ valid = Bool(TRUE) =>
            /\ ret.k = "array" /\ Len(ret.v) = 8
            /\ \A i \in 1..8 :
                 /\ ret.v[i].k = "stop"
                 /\ ret.v[i].v.index = i - 1
                 /\ ret.v[i].v.options.inputFormat = "rgb"
                 /\ ret.v[i].v.options.colorArray =
                      <<FirstRamp(hex).v[2],
                        Text("rgbfn", [args |-> hexToRgb(hex).v, sep |-> ","]),
                        FirstRamp(hex).v[7]>>
       /\ valid = Bool(FALSE) => ret = Arr(<<>>)

C7_Witness ==
  /\ Done("generateGrandients")
  /\ call.args[1] = S(<<"3", "3", "6", "6", "9", "9">>)
  /\ Len(ret.v) = 8

\* C8: the gradients of the Theme returned by generateCssColor are the 8
\* entries of generateGrandients in the same order (darkest anchor first);
\* only calculateColor reverses, and it reverses the value it returns.
C8_ThemeKeepsRampOrder ==
  /\ Succeeded("generateCssColor") =>
       /\ Len(ret.v.gradients.v) = 8
       /\ ret.v.gradients = generateGrandients(ret.v.colors.v.hex)
  /\ Succeeded("calculateColor") =>
       ret.v.gradients.v = Reverse(generateGrandients(ret.v.colors.v.hex).v)

DeclNames ==
  <<"primary-color", "secondary-color", "text-color", "dark-color",
    "dark-transparent-color", "contrast-color">>

\* C9: for a valid input cssVariable has 14 entries: the six named
\* declarations in order, then --gradient-100 .. --gradient-800, where
\* --gradient-(100*(i+1)) carries stop 7-i of the ramp of generateGrandients;
\* --gradient-100 is the stop at index 7 that the colour picks use.
C9_FourteenDeclarations ==
  Done("generateCssColor") =>
    /\ colorValidate(call.args[1], call.args[2]) = Bool(TRUE) => ret.k # "throw"
    /\ ret.k # "throw" =>
         LET css == ret.v.cssVariable.v
             ramp == generateGrandients(ret.v.colors.v.hex).v
             black == ret.v.contrast.v.result = "black"
         IN /\ Len(css) = 14
            /\ \A i \in 1..6 : css[i].v.name = <<DeclNames[i], 0>>
            /\ \A i \in 0..7 :
                 css[7 + i] = Decl(<<"gradient-", 100 * (i + 1)>>, ramp[(7 - i) + 1])
            /\ css[7].v.value = (IF black THEN css[3] ELSE css[2]).v.value
            /\ css[7].v.value = (IF black THEN css[4] ELSE css[2]).v.value

\* a dark-on-light theme from an hsl input
C9_Witness ==
  /\ Succeeded("generateCssColor")
  /\ call.args = <<"hsl", Triple(0, 0, 100)>>
  /\ ret.v.contrast.v.result = "black"
  /\ Len(ret.v.cssVariable.v) = 14

\* C10: after a calculateColor call the style of the surface is exactly that
\* call's declarations, followed by the transition iff animated, the "dark"
\* class is set iff that call's contrast is "black", and a call that raises
\* leaves style and class as they were.
C10_SurfaceReflectsLastCall ==
  Done("calculateColor") =>
    IF ret.k = "throw" THEN body = old
    ELSE LET theme == generateCssColor(call.args[1], call.args[2]) IN
         /\ body.cssText =
              theme.v.cssVariable.v \o (IF call.args[3] THEN <<Transition>> ELSE <<>>)
         /\ body.dark = (ret.v.contrast.v.result = "black")

\* a second theme, not animated, replaces an animated one of the other mode
C10_Witness ==
  /\ Succeeded("calculateColor")
  /\ ~call.args[3]
  /\ old.cssText # <<>>
  /\ old.cssText[Len(old.cssText)] = Transition
  /\ old.dark /\ ~body.dark

====
